---- MODULE Spec2Model ----
(***************************************************************************)
(* Recipe backend: the Express handlers of routes/recipeRoutes.js and      *)
(* server.js over the Mongoose model Recipe.                               *)
(*                                                                         *)
(* Every handler is an async function: the code between two awaits runs    *)
(* without interruption on Node's single thread, and each awaited storage  *)
(* or object-storage call takes effect atomically at some later moment.    *)
(* A handler is therefore one action per await segment.                    *)
(*                                                                         *)
(* Numbers that can carry one decimal (a rating of 3.7) are kept in        *)
(* tenths: 37 is 3.7 and 30 is 3.  averageRating is a fraction [n, d] in   *)
(* lowest terms, d = 0 standing for NaN.  Strings are tuples of            *)
(* one-character strings so that trim and toLowerCase are computed.        *)
(*                                                                         *)
(* Spec is the server with every handler that writes, over one recipe.     *)
(* SpecSeq is Spec with at most one rating request in flight.  SpecIds is  *)
(* the handlers that take an id from the path, over two recipes and ids    *)
(* that are no ObjectId.  SpecCreate is the create handler over every      *)
(* combination of its fields.  SpecList is the list handler over a         *)
(* collection of three recipes.                                            *)
(***************************************************************************)
EXTENDS Integers, Sequences, FiniteSets, TLC

\* ------------------------------------------------------------------ bounds
NumIds == 1
NumProcs == 2
MaxReqs == 3
NumDocs == 2
NumListed == 3

RecipeIds == 1..NumIds
DocIds == 1..NumDocs
ListIds == 1..NumListed
Procs == 1..NumProcs

\* ------------------------------------------------------------- JS values
Undefined == [kind |-> "undef", val |-> <<>>]
Str(s) == [kind |-> "str", val |-> s]

IsSpace(c) == c = " "

RECURSIVE TrimStart(_)
TrimStart(s) ==
    IF s # <<>> /\ IsSpace(Head(s)) THEN TrimStart(Tail(s)) ELSE s

RECURSIVE TrimEnd(_)
TrimEnd(s) ==
    IF s # <<>> /\ IsSpace(s[Len(s)]) THEN TrimEnd(SubSeq(s, 1, Len(s) - 1)) ELSE s

\* String.prototype.trim
Trim(s) == TrimEnd(TrimStart(s))

\* String.prototype.toLowerCase
UpperCase ==
    <<"A", "B", "C", "D", "E", "F", "G", "H", "I", "J", "K", "L", "M",
      "N", "O", "P", "Q", "R", "S", "T", "U", "V", "W", "X", "Y", "Z">>

LowerCase ==
    <<"a", "b", "c", "d", "e", "f", "g", "h", "i", "j", "k", "l", "m",
      "n", "o", "p", "q", "r", "s", "t", "u", "v", "w", "x", "y", "z">>

ToLowerChar(c) ==
    IF \E i \in 1..Len(UpperCase) : UpperCase[i] = c
    THEN LowerCase[CHOOSE i \in 1..Len(UpperCase) : UpperCase[i] = c]
    ELSE c

ToLowerCase(s) == [i \in 1..Len(s) |-> ToLowerChar(s[i])]

\* JS truthiness of a request field that is a string or absent: !text
Falsy(x) == x.kind = "undef" \/ (x.kind = "str" /\ x.val = <<>>)

\* A rating as it arrives in the JSON body: a number (in tenths), a
\* non-numeric string, or absent.
NumV(v) == [kind |-> "num", val |-> v]
NaN == [kind |-> "nan", val |-> 0]
NoRating == [kind |-> "undef", val |-> 0]
BadStr == [kind |-> "str", val |-> 0]

\* parseInt(rating): the integer prefix of the value's text, NaN without one
ParseInt(r) ==
    IF r.kind = "num"
    THEN IF r.val >= 0 THEN NumV((r.val \div 10) * 10)
                       ELSE NumV(0 - (((0 - r.val) \div 10) * 10))
    ELSE NaN

\* ------------------------------------------------------------- fractions
RECURSIVE GCD(_, _)
GCD(a, b) == IF b = 0 THEN a ELSE GCD(b, a % b)

Frac(n, d) ==
    IF d = 0 THEN [n |-> 0, d |-> 0]
    ELSE LET g == GCD(n, d) IN
         IF g = 0 THEN [n |-> 0, d |-> 1] ELSE [n |-> n \div g, d |-> d \div g]

Zero == [n |-> 0, d |-> 1]

RECURSIVE SumSeq(_)
SumSeq(s) == IF s = <<>> THEN 0 ELSE Head(s) + SumSeq(Tail(s))


\* mean of the values s (tenths) as an exact fraction: total / length
Mean(s) == Frac(SumSeq(s), 10 * Len(s))

\* Number((total / length).toFixed(2)): the nearest hundredth, ties upward
ToFixed2(s) == Frac((20 * SumSeq(s) + Len(s)) \div (2 * Len(s)), 100)

\* ------------------------------------------------------------- the schema
\* recipeSchema: the paths the handlers of this model read or write.
NoDoc == [exists |-> FALSE]
NoImage == 0

\* req.params.id is any text the client puts in the path: the id of a
\* document storage assigned, or text that is no ObjectId at all (BadId), on
\* which findById rejects with a CastError
BadId == 0
ValidObjectId(id) == id # BadId

Anonymous == <<"A", "n", "o", "n">>

\* The document new Recipe(r) is in storage: the fields given, createdAt,
\* and the schema defaults of the rating and comment paths.
Doc(r, createdAt) ==
    [exists |-> TRUE, title |-> r.title, category |-> r.category, tags |-> r.tags,
     ingredients |-> r.ingredients, instructions |-> r.instructions,
     imageUrl |-> r.imageUrl, createdAt |-> createdAt, ratings |-> <<>>,
     averageRating |-> Zero, ratingsCount |-> 0, comments |-> <<>>, v |-> 0]

\* A document of the collection as it is before the first request: a
\* schema-valid recipe with no ratings and no comments yet.
Sample(image) ==
    [title |-> <<"P", "i", "e">>, category |-> <<"c", "a", "k", "e", "s">>,
     tags |-> <<>>,
     ingredients |-> <<[name |-> <<"e", "g", "g">>, amount |-> <<"2">>]>>,
     instructions |-> << <<"m", "i", "x">> >>,
     imageUrl |-> image]

NewDoc(image) == Doc(Sample(image), 0)

\* ratings.rating: Number, required, min 1, max 5
RatingValid(v) == v >= 10 /\ v <= 50

\* comments[]: text is trimmed and required, author is trimmed and
\* defaults to 'Anonymous' when it is undefined
\* the comment as given, with no trim setter on text
CastComment_NoTrim(text, author) ==
    [text |-> text.val,
     author |-> IF author.kind = "undef" THEN Anonymous ELSE Trim(author.val)]

CastComment(text, author) ==
    [text |-> Trim(text.val),
     author |-> IF author.kind = "undef" THEN Anonymous ELSE Trim(author.val)]

CommentValid(c) == c.text # <<>>

\* ------------------------------------------------------------------ state
VARIABLES
    db,        \* the recipes collection: id -> stored document or NoDoc
    pc,        \* per handler slot: the await the request is suspended at
    req,       \* per handler slot: the request being served
    local,     \* per handler slot: the handler's locals (the loaded document)
    last,      \* history: the response sent most recently, with its request
    nreq,      \* requests accepted so far
    cloud,     \* object storage: the calls made, the urls uploads returned,
               \* the urls of the images it holds
    appended,  \* history: per recipe, the rating values answered with 200
    commented  \* history: per recipe, the number of comments answered with 200

vars == <<db, pc, req, local, last, nreq, cloud, appended, commented>>

NoReq == [op |-> "none"]
NoLocal == [loaded |-> FALSE]
NoLast == [req |-> NoReq, resp |-> [status |-> 0]]

\* The collection exists before the process starts: each id is absent or
\* holds a schema-valid document with no ratings and no comments yet, with
\* or without an uploaded image (the image of recipe i has url i).
InitOver(ids) ==
    /\ db \in [ids -> {NoDoc, NewDoc(NoImage)}] \cup {[i \in ids |-> NewDoc(i)]}
    /\ pc = [p \in Procs |-> "idle"]
    /\ req = [p \in Procs |-> NoReq]
    /\ local = [p \in Procs |-> NoLocal]
    /\ last = NoLast
    /\ nreq = 0
    /\ cloud = [uploads |-> 0, destroys |-> 0,
                issued |-> {db[i].imageUrl : i \in {j \in ids : db[j] # NoDoc}}
                              \ {NoImage},
                images |-> {db[i].imageUrl : i \in {j \in ids : db[j] # NoDoc}}
                              \ {NoImage}]
    /\ appended = [i \in ids |-> <<>>]
    /\ commented = [i \in ids |-> 0]

Init == InitOver(RecipeIds)

\* A new request is served in the lowest slot that serves none (the slots
\* are interchangeable: they only name the handler invocations in flight).
Free(p) ==
    /\ pc[p] = "idle"
    /\ \A q \in Procs : q < p => pc[q] # "idle"
    /\ nreq < MaxReqs

\* The handler answers before its first await.
Reject(p, r, rsp) ==
    /\ nreq' = nreq + 1
    /\ last' = [req |-> r, resp |-> rsp]
    /\ UNCHANGED <<pc, req, local>>

\* The handler reaches its first await.
Suspend(p, r, at, loc) ==
    /\ nreq' = nreq + 1
    /\ pc' = [pc EXCEPT ![p] = at]
    /\ req' = [req EXCEPT ![p] = r]
    /\ local' = [local EXCEPT ![p] = loc]
    /\ UNCHANGED last

\* The handler goes on to its next await.
Await(p, at, loc) ==
    /\ pc' = [pc EXCEPT ![p] = at]
    /\ local' = [local EXCEPT ![p] = loc]
    /\ UNCHANGED <<req, last, nreq>>

\* The handler answers and ends.
Reply(p, rsp) ==
    /\ pc' = [pc EXCEPT ![p] = "idle"]
    /\ req' = [req EXCEPT ![p] = NoReq]
    /\ local' = [local EXCEPT ![p] = NoLocal]
    /\ last' = [req |-> req[p], resp |-> rsp]
    /\ UNCHANGED nreq

\* ----------------------------------------------------- Mongoose documents
\* The document findById returns, with the change tracking save() uses:
\* base is the document as loaded, cur its present field values, pushR and
\* pushC the elements pushed on ratings and comments, setC whether the
\* comments array was replaced as a whole (unshift), castError whether an
\* assignment failed to cast.
Loaded(d) ==
    [loaded |-> TRUE, base |-> d, cur |-> d, pushR |-> <<>>, pushC |-> <<>>,
     setC |-> FALSE, castError |-> FALSE]

\* validation before save: cast errors and the validators of the new elements
Validates(l) ==
    /\ ~l.castError
    /\ \A i \in 1..Len(l.pushR) : RatingValid(l.pushR[i])
    /\ \A i \in 1..Len(l.pushC) : CommentValid(l.pushC[i])
    /\ l.setC => \A i \in 1..Len(l.cur.comments) : CommentValid(l.cur.comments[i])

\* an update that matches on _id alone, whatever was modified
Matches_NoVersion(l, stored) == stored # NoDoc

\* save() of a loaded document sends an update of the modified paths only:
\* $push for pushed elements, $set for assigned paths whose value changed
\* and for an array changed by unshift, $inc of the version key.  The update
\* matches on _id, and also on the version key when an array is $set.
Matches(l, stored) ==
    /\ stored # NoDoc
    /\ l.setC => stored.v = l.base.v

\* a store that writes the handler's whole copy back over the stored document
Update_Overwrite(l, stored) == [l.cur EXCEPT !.v = stored.v + 1]

Update(l, stored) ==
    [stored EXCEPT
        !.ratings = @ \o l.pushR,
        !.comments = IF l.setC THEN l.cur.comments ELSE @ \o l.pushC,
        !.averageRating =
            IF l.cur.averageRating # l.base.averageRating
            THEN l.cur.averageRating ELSE @,
        !.ratingsCount =
            IF l.cur.ratingsCount # l.base.ratingsCount
            THEN l.cur.ratingsCount ELSE @,
        !.v = @ + 1]

\* save() resolves when validation passes and the update matched a document
Saves(l, stored) == Validates(l) /\ Matches(l, stored)

\* a store that writes the handler's copy when the document is gone
SaveDoc_Upsert(id, l) ==
    db' = IF ~Validates(l) THEN db
          ELSE IF db[id] = NoDoc THEN [db EXCEPT ![id] = l.cur]
          ELSE IF Matches(l, db[id]) THEN [db EXCEPT ![id] = Update(l, db[id])]
          ELSE db

SaveDoc(id, l) ==
    db' = IF Saves(l, db[id]) THEN [db EXCEPT ![id] = Update(l, db[id])] ELSE db


\* ----------------------------------------------------------- the requests
RatingInputs ==
    {NoRating, BadStr} \cup {NumV(v) : v \in {0 - 10, 0, 10, 37, 50, 60}}

TextInputs ==
    {Undefined, Str(<<>>), Str(<<" ">>), Str(<<"a">>), Str(<<" ", "b">>)}

\* the author of a comment is absent, or given with the text " b"
AuthorInputs(text) ==
    IF text = Str(<<" ", "b">>) THEN {Str(<<"c", " ">>)} ELSE {Undefined}

At(p, op, ep, at) == pc[p] = at /\ req[p].op = op /\ req[p].ep = ep

NotFound == [status |-> 404, msg |-> "Recipe not found"]

\* ------------------------------- router.post('/:id/ratings') (recipeRoutes)
\* !numericRating || numericRating < 1 || numericRating > 5
RouterRatingRejected(n) ==
    n.kind = "nan" \/ n.val = 0 \/ n.val < 10 \/ n.val > 50

RouterRateBegin(p, id, r) ==
    /\ Free(p)
    /\ LET rq == [op |-> "rate", ep |-> "router", id |-> id, rating |-> r]
           numericRating == ParseInt(r) IN
       IF RouterRatingRejected(numericRating)
       THEN Reject(p, rq, [status |-> 400, msg |-> "Rating must be between 1 and 5"])
       ELSE Suspend(p, rq, "find", [loaded |-> FALSE, rating |-> numericRating.val])
    /\ UNCHANGED <<db, cloud, appended, commented>>

\* the recomputation with the count taken before the push
RouterRecompute_StaleCount(d, rating) ==
    LET ratings == Append(d.ratings, rating) IN
    [Loaded(d) EXCEPT
        !.pushR = <<rating>>,
        !.cur.ratings = ratings,
        !.cur.averageRating = ToFixed2(ratings),
        !.cur.ratingsCount = Len(d.ratings)]

\* recipe.ratings.push, the recomputation and the two assignments
RouterRecompute(d, rating) ==
    LET ratings == Append(d.ratings, rating) IN
    [Loaded(d) EXCEPT
        !.pushR = <<rating>>,
        !.cur.ratings = ratings,
        !.cur.averageRating = ToFixed2(ratings),
        !.cur.ratingsCount = Len(ratings)]

RouterRateFind(p) ==
    /\ At(p, "rate", "router", "find")
    /\ IF ~ValidObjectId(req[p].id)
       THEN Reply(p, [status |-> 500, msg |-> "Failed to submit rating"])
       ELSE IF db[req[p].id] = NoDoc
       THEN Reply(p, NotFound)
       ELSE Await(p, "save", RouterRecompute(db[req[p].id], local[p].rating))
    /\ UNCHANGED <<db, cloud, appended, commented>>

RateReply(l) ==
    [status |-> 200, averageRating |-> l.cur.averageRating,
     ratingsCount |-> l.cur.ratingsCount]

RouterRateSave(p) ==
    /\ At(p, "rate", "router", "save")
    /\ SaveDoc(req[p].id, local[p])
    /\ IF Saves(local[p], db[req[p].id])
       THEN /\ Reply(p, RateReply(local[p]))
            /\ appended' = [appended EXCEPT
                               ![req[p].id] = Append(@, req[p].rating.val)]
       ELSE /\ Reply(p, [status |-> 500, msg |-> "Failed to submit rating"])
            /\ UNCHANGED appended
    /\ UNCHANGED <<cloud, commented>>

\* ------------------------------- app.post('/api/recipes/:id/rate') (server)
\* !rating || rating < 1 || rating > 5, on the body's value as it is: every
\* comparison with a non-numeric string is false
AppRatingRejected(r) ==
    \/ r.kind = "undef"
    \/ r.kind = "num" /\ (r.val = 0 \/ r.val < 10 \/ r.val > 50)

AppRateBegin(p, id, r) ==
    /\ Free(p)
    /\ LET rq == [op |-> "rate", ep |-> "app", id |-> id, rating |-> r] IN
       IF AppRatingRejected(r)
       THEN Reject(p, rq, [status |-> 400, msg |-> "Rating must be between 1 and 5"])
       ELSE Suspend(p, rq, "find", NoLocal)
    /\ UNCHANGED <<db, cloud, appended, commented>>

\* recipe.ratings.push({ rating }), total / length and the two assignments;
\* a rating that does not cast to Number leaves a cast error on the document
AppRecompute(d, r) ==
    IF r.kind = "num"
    THEN LET ratings == Append(d.ratings, r.val) IN
         [Loaded(d) EXCEPT
             !.pushR = <<r.val>>,
             !.cur.ratings = ratings,
             !.cur.averageRating = Mean(ratings),
             !.cur.ratingsCount = Len(ratings)]
    ELSE [Loaded(d) EXCEPT
             !.castError = TRUE,
             !.cur.ratingsCount = Len(d.ratings) + 1]

AppRateFind(p) ==
    /\ At(p, "rate", "app", "find")
    /\ IF ~ValidObjectId(req[p].id)
       THEN Reply(p, [status |-> 500, msg |-> "Internal server error"])
       ELSE IF db[req[p].id] = NoDoc
       THEN Reply(p, NotFound)
       ELSE Await(p, "save", AppRecompute(db[req[p].id], req[p].rating))
    /\ UNCHANGED <<db, cloud, appended, commented>>

AppRateSave(p) ==
    /\ At(p, "rate", "app", "save")
    /\ SaveDoc(req[p].id, local[p])
    /\ IF Saves(local[p], db[req[p].id])
       THEN /\ Reply(p, RateReply(local[p]))
            /\ appended' = [appended EXCEPT
                               ![req[p].id] = Append(@, req[p].rating.val)]
       ELSE /\ Reply(p, [status |-> 500, msg |-> "Internal server error"])
            /\ UNCHANGED appended
    /\ UNCHANGED <<cloud, commented>>

\* ------------------------------ router.post('/:id/comments') (recipeRoutes)
\* !text
RouterCommentRejected(text) == Falsy(text)

RouterCommentBegin(p, id, text, author) ==
    /\ Free(p)
    /\ LET rq == [op |-> "comment", ep |-> "router", id |-> id,
                  text |-> text, author |-> author] IN
       IF RouterCommentRejected(text)
       THEN Reject(p, rq, [status |-> 400, msg |-> "Comment text is required."])
       ELSE Suspend(p, rq, "find", NoLocal)
    /\ UNCHANGED <<db, cloud, appended, commented>>

\* recipe.comments.push({ text, author })
RouterPush(d, text, author) ==
    LET c == CastComment(text, author) IN
    [Loaded(d) EXCEPT !.pushC = <<c>>, !.cur.comments = Append(d.comments, c)]

RouterCommentFind(p) ==
    /\ At(p, "comment", "router", "find")
    /\ IF ~ValidObjectId(req[p].id)
       THEN Reply(p, [status |-> 500, msg |-> "Failed to add comment"])
       ELSE IF db[req[p].id] = NoDoc
       THEN Reply(p, NotFound)
       ELSE Await(p, "save", RouterPush(db[req[p].id], req[p].text, req[p].author))
    /\ UNCHANGED <<db, cloud, appended, commented>>

RouterCommentSave(p) ==
    /\ At(p, "comment", "router", "save")
    /\ SaveDoc(req[p].id, local[p])
    /\ IF Saves(local[p], db[req[p].id])
       THEN /\ Reply(p, [status |-> 200, msg |-> "Comment added successfully"])
            /\ commented' = [commented EXCEPT ![req[p].id] = @ + 1]
       ELSE /\ Reply(p, [status |-> 500, msg |-> "Failed to add comment"])
            /\ UNCHANGED commented
    /\ UNCHANGED <<cloud, appended>>

\* ---------------------------- app.post('/api/recipes/:id/comment') (server)
\* !text || text.trim().length === 0
AppCommentRejected(text) == Falsy(text) \/ Len(Trim(text.val)) = 0

AppCommentBegin(p, id, text) ==
    /\ Free(p)
    /\ LET rq == [op |-> "comment", ep |-> "app", id |-> id,
                  text |-> text, author |-> Undefined] IN
       IF AppCommentRejected(text)
       THEN Reject(p, rq, [status |-> 400, msg |-> "Comment text is required"])
       ELSE Suspend(p, rq, "find", NoLocal)
    /\ UNCHANGED <<db, cloud, appended, commented>>

\* newComment = { text: text.trim(), ... }; recipe.comments.unshift(newComment)
AppUnshift(d, text) ==
    LET c == CastComment(Str(Trim(text.val)), Undefined) IN
    [Loaded(d) EXCEPT !.setC = TRUE, !.cur.comments = <<c>> \o d.comments]

AppCommentFind(p) ==
    /\ At(p, "comment", "app", "find")
    /\ IF ~ValidObjectId(req[p].id)
       THEN Reply(p, [status |-> 500, msg |-> "Internal server error"])
       ELSE IF db[req[p].id] = NoDoc
       THEN Reply(p, NotFound)
       ELSE Await(p, "save", AppUnshift(db[req[p].id], req[p].text))
    /\ UNCHANGED <<db, cloud, appended, commented>>

AppCommentSave(p) ==
    /\ At(p, "comment", "app", "save")
    /\ SaveDoc(req[p].id, local[p])
    /\ IF Saves(local[p], db[req[p].id])
       THEN /\ Reply(p, [status |-> 200, msg |-> "Comment added successfully",
                         comment |-> [text |-> Trim(req[p].text.val)]])
            /\ commented' = [commented EXCEPT ![req[p].id] = @ + 1]
       ELSE /\ Reply(p, [status |-> 500, msg |-> "Internal server error"])
            /\ UNCHANGED commented
    /\ UNCHANGED <<cloud, appended>>

\* ------------------------------------- router.delete('/:id') (recipeRoutes)
DeleteBegin(p, id) ==
    /\ Free(p)
    /\ Suspend(p, [op |-> "delete", ep |-> "router", id |-> id], "find", NoLocal)
    /\ UNCHANGED <<db, cloud, appended, commented>>

DeleteFind(p) ==
    /\ At(p, "delete", "router", "find")
    /\ IF ~ValidObjectId(req[p].id)
       THEN Reply(p, [status |-> 500, msg |-> "Failed to delete recipe"])
       ELSE LET recipe == db[req[p].id] IN
            IF recipe = NoDoc
            THEN Reply(p, NotFound)
            ELSE IF recipe.imageUrl # NoImage
                 THEN Await(p, "destroy", [loaded |-> TRUE, destroyFailed |-> FALSE,
                                            imageUrl |-> recipe.imageUrl])
                 ELSE Await(p, "remove", [loaded |-> TRUE, destroyFailed |-> FALSE,
                                           imageUrl |-> NoImage])
    /\ UNCHANGED <<db, cloud, appended, commented>>

\* a destroy whose failure ends the request with the handler's 500
DeleteDestroy_Propagate(p, failed) ==
    /\ At(p, "delete", "router", "destroy")
    /\ cloud' = [cloud EXCEPT
                    !.destroys = @ + 1,
                    !.images = IF failed THEN @ ELSE @ \ {local[p].imageUrl}]
    /\ IF failed
       THEN Reply(p, [status |-> 500, msg |-> "Failed to delete recipe"])
       ELSE Await(p, "remove", [local[p] EXCEPT !.destroyFailed = failed])
    /\ UNCHANGED <<db, appended, commented>>

\* cloudinary.uploader.destroy resolves or rejects; the catch only logs
DeleteDestroy(p, failed) ==
    /\ At(p, "delete", "router", "destroy")
    /\ cloud' = [cloud EXCEPT
                    !.destroys = @ + 1,
                    !.images = IF failed THEN @ ELSE @ \ {local[p].imageUrl}]
    /\ Await(p, "remove", [local[p] EXCEPT !.destroyFailed = failed])
    /\ UNCHANGED <<db, appended, commented>>

\* Recipe.findByIdAndDelete
DeleteRemove(p) ==
    /\ At(p, "delete", "router", "remove")
    /\ db' = [db EXCEPT ![req[p].id] = NoDoc]
    /\ Reply(p, [status |-> 200, msg |-> "Recipe deleted successfully",
                 destroyFailed |-> local[p].destroyFailed])
    /\ UNCHANGED <<cloud, appended, commented>>

\* ---------------------------------------- router.get('/:id') (recipeRoutes)
GetBegin(p, id) ==
    /\ Free(p)
    /\ Suspend(p, [op |-> "get", ep |-> "router", id |-> id], "find", NoLocal)
    /\ UNCHANGED <<db, cloud, appended, commented>>

GetFind(p) ==
    /\ At(p, "get", "router", "find")
    /\ IF ~ValidObjectId(req[p].id)
       THEN Reply(p, [status |-> 500, msg |-> "Failed to fetch recipe"])
       ELSE IF db[req[p].id] = NoDoc
       THEN Reply(p, NotFound)
       ELSE Reply(p, [status |-> 200, recipe |-> db[req[p].id]])
    /\ UNCHANGED <<db, cloud, appended, commented>>

\* -------------------------------------------- router.get('/') (recipeRoutes)
\* tags.split(',')
RECURSIVE Split(_)
Split(s) ==
    IF \E i \in 1..Len(s) : s[i] = ","
    THEN LET i == CHOOSE k \in 1..Len(s) :
                     s[k] = "," /\ \A j \in 1..(k - 1) : s[j] # ","
         IN <<SubSeq(s, 1, i - 1)>> \o Split(SubSeq(s, i + 1, Len(s)))
    ELSE <<s>>

\* the query object the handler builds from req.query
BuildQuery(category, tags, search) ==
    [category |-> IF Falsy(category) THEN Undefined
                  ELSE Str(ToLowerCase(category.val)),
     tagsIn |-> IF Falsy(tags) THEN Undefined
                ELSE [kind |-> "in",
                      val |-> {ToLowerCase(Trim(Split(tags.val)[i])) :
                                  i \in 1..Len(Split(tags.val))}],
     regex |-> IF Falsy(search) THEN Undefined ELSE Str(search.val)]

\* { $regex: pattern, $options: 'i' } over the patterns of this model: a
\* letter matches itself in either case, '.' matches any character, and a
\* pattern with an unclosed '(' is one storage refuses
RegexValid(pattern) == \A i \in 1..Len(pattern) : pattern[i] # "("

RegexMatches(pattern, text) ==
    \E off \in 0..(Len(text) - Len(pattern)) :
        \A i \in 1..Len(pattern) :
            \/ pattern[i] = "."
            \/ ToLowerChar(pattern[i]) = ToLowerChar(text[off + i])

\* the documents a query selects: every condition of the query object holds
Selects(query, d) ==
    /\ query.category.kind = "undef" \/ d.category = query.category.val
    /\ query.tagsIn.kind = "undef"
          \/ \E i \in 1..Len(d.tags) : d.tags[i] \in query.tagsIn.val
    /\ query.regex.kind = "undef"
          \/ RegexMatches(query.regex.val, d.title)
          \/ \E i \in 1..Len(d.ingredients) :
                 RegexMatches(query.regex.val, d.ingredients[i].name)

\* .sort({ createdAt: -1 }) of the documents with the ids S
RECURSIVE SortNewestFirst(_)
SortNewestFirst(S) ==
    IF S = {} THEN <<>>
    ELSE LET newest == CHOOSE i \in S :
                           \A j \in S : db[j].createdAt <= db[i].createdAt
         IN <<newest>> \o SortNewestFirst(S \ {newest})

ListBegin(p, category, tags, search) ==
    /\ Free(p)
    /\ Suspend(p, [op |-> "list", ep |-> "router", category |-> category,
                   tags |-> tags, search |-> search],
               "find", [loaded |-> FALSE, query |-> BuildQuery(category, tags, search)])
    /\ UNCHANGED <<db, cloud, appended, commented>>

\* Recipe.find(query).sort(...): the ids of the documents found, in order
ListFind(p) ==
    /\ At(p, "list", "router", "find")
    /\ LET query == local[p].query IN
       IF query.regex.kind # "undef" /\ ~RegexValid(query.regex.val)
       THEN Reply(p, [status |-> 500, msg |-> "Failed to fetch recipes"])
       ELSE Reply(p, [status |-> 200,
                      recipes |-> SortNewestFirst(
                          {i \in DOMAIN db :
                              db[i] # NoDoc /\ Selects(query, db[i])})])
    /\ UNCHANGED <<db, cloud, appended, commented>>

\* ------------------------------------------ router.post('/') (recipeRoutes)
\* A multipart field that carries JSON text: absent, the empty string, text
\* JSON.parse throws on, or text that parses to a value.  A parsed value is
\* an array of items or something that is no array.
JEmpty == [kind |-> "str", ok |-> FALSE, empty |-> TRUE, val |-> <<>>]
JBad == [kind |-> "str", ok |-> FALSE, empty |-> FALSE, val |-> <<>>]
JArray(items) ==
    [kind |-> "str", ok |-> TRUE, empty |-> FALSE, val |-> [array |-> TRUE, items |-> items]]
JObject ==
    [kind |-> "str", ok |-> TRUE, empty |-> FALSE, val |-> [array |-> FALSE, items |-> <<>>]]
JAbsent == [kind |-> "undef", ok |-> FALSE, empty |-> FALSE, val |-> <<>>]

JFalsy(f) == f.kind = "undef" \/ f.empty

validCategories ==
    { <<"p", "a", "s", "t", "r", "i", "e", "s">>,
      <<"c", "a", "k", "e", "s">>,
      <<"c", "o", "o", "k", "i", "e", "s">>,
      <<"c", "o", "o", "k", "i", "n", "g">>,
      <<"b", "r", "e", "a", "d">>,
      <<"d", "e", "s", "s", "e", "r", "t", "s">>,
      <<"a", "p", "p", "e", "t", "i", "z", "e", "r", "s">>,
      <<"m", "a", "i", "n", "-", "d", "i", "s", "h", "e", "s">>,
      <<"s", "a", "l", "a", "d", "s">>,
      <<"s", "o", "u", "p", "s">>,
      <<"b", "e", "v", "e", "r", "a", "g", "e", "s">> }

Difficulties ==
    { <<"e", "a", "s", "y">>, <<"m", "e", "d", "i", "u", "m">>, <<"h", "a", "r", "d">> }

\* the checks with the arrays tested for being arrays only
CreateRejection_NoLength(body) ==
    IF Falsy(body.title) \/ Falsy(body.category)
       \/ JFalsy(body.ingredients) \/ JFalsy(body.instructions)
    THEN "Missing required fields"
    ELSE IF ~body.ingredients.ok \/ ~body.instructions.ok
            \/ (~JFalsy(body.tags) /\ ~body.tags.ok)
    THEN "Invalid JSON format"
    ELSE IF ~body.ingredients.val.array
    THEN "Ingredients must be a non-empty array"
    ELSE IF ~body.instructions.val.array
    THEN "Instructions must be a non-empty array"
    ELSE IF ToLowerCase(body.category.val) \notin validCategories
    THEN "Invalid category"
    ELSE "none"

\* the checks with the category tested before the fields are decoded
CreateRejection_CategoryFirst(body) ==
    IF Falsy(body.title) \/ Falsy(body.category)
       \/ JFalsy(body.ingredients) \/ JFalsy(body.instructions)
    THEN "Missing required fields"
    ELSE IF ToLowerCase(body.category.val) \notin validCategories
    THEN "Invalid category"
    ELSE IF ~body.ingredients.ok \/ ~body.instructions.ok
            \/ (~JFalsy(body.tags) /\ ~body.tags.ok)
    THEN "Invalid JSON format"
    ELSE IF ~body.ingredients.val.array \/ Len(body.ingredients.val.items) = 0
    THEN "Ingredients must be a non-empty array"
    ELSE IF ~body.instructions.val.array \/ Len(body.instructions.val.items) = 0
    THEN "Instructions must be a non-empty array"
    ELSE "none"

\* the checks of the handler before the upload, in their order
CreateRejection(body) ==
    IF Falsy(body.title) \/ Falsy(body.category)
       \/ JFalsy(body.ingredients) \/ JFalsy(body.instructions)
    THEN "Missing required fields"
    ELSE IF ~body.ingredients.ok \/ ~body.instructions.ok
            \/ (~JFalsy(body.tags) /\ ~body.tags.ok)
    THEN "Invalid JSON format"
    ELSE IF ~body.ingredients.val.array \/ Len(body.ingredients.val.items) = 0
    THEN "Ingredients must be a non-empty array"
    ELSE IF ~body.instructions.val.array \/ Len(body.instructions.val.items) = 0
    THEN "Instructions must be a non-empty array"
    ELSE IF ToLowerCase(body.category.val) \notin validCategories
    THEN "Invalid category"
    ELSE "none"

\* ing.name?.trim()
OptTrim(x) == IF x.kind = "undef" THEN Undefined ELSE Str(Trim(x.val))

\* new Recipe({ title, category, tags, ingredients, instructions, imageUrl }):
\* cookingTime and difficulty are not among the fields the handler passes;
\* parsedTags is [] when tags is absent or empty
newRecipe(body, imageUrl) ==
    [title |-> Str(Trim(body.title.val)),
     category |-> Str(ToLowerCase(body.category.val)),
     cookingTime |-> Undefined,
     difficulty |-> Undefined,
     tags |->
        IF ~JFalsy(body.tags) /\ body.tags.val.array
        THEN [i \in 1..Len(body.tags.val.items) |->
                 Str(ToLowerCase(Trim(body.tags.val.items[i].val)))]
        ELSE <<>>,
     ingredients |->
        [i \in 1..Len(body.ingredients.val.items) |->
            [name |-> OptTrim(body.ingredients.val.items[i].name),
             amount |-> OptTrim(body.ingredients.val.items[i].amount)]],
     instructions |->
        [i \in 1..Len(body.instructions.val.items) |->
            Str(Trim(body.instructions.val.items[i].val))],
     imageUrl |-> imageUrl]

\* recipeSchema's validators on a new document: required paths (a required
\* string fails when it is undefined or empty) and the enums
Required(x) == x.kind # "undef" /\ x.val # <<>>

SchemaValid(r) ==
    /\ Required(r.title)
    /\ Required(r.category) /\ r.category.val \in validCategories
    /\ r.cookingTime.kind # "undef"
    /\ r.difficulty.kind # "undef" /\ r.difficulty.val \in Difficulties
    /\ \A i \in 1..Len(r.ingredients) :
          Required(r.ingredients[i].name) /\ Required(r.ingredients[i].amount)
    /\ \A i \in 1..Len(r.instructions) : Required(r.instructions[i])

\* the values of the validated document as storage holds them
Values(r) ==
    [title |-> r.title.val, category |-> r.category.val,
     tags |-> [i \in 1..Len(r.tags) |-> r.tags[i].val],
     ingredients |->
        [i \in 1..Len(r.ingredients) |->
            [name |-> r.ingredients[i].name.val,
             amount |-> r.ingredients[i].amount.val]],
     instructions |-> [i \in 1..Len(r.instructions) |-> r.instructions[i].val],
     imageUrl |-> r.imageUrl]

CreateBegin(p, body, file) ==
    /\ Free(p)
    /\ LET rq == [op |-> "create", ep |-> "router", body |-> body, file |-> file]
           why == CreateRejection(body) IN
       IF why # "none"
       THEN Reject(p, rq, [status |-> 400, msg |-> why, uploaded |-> FALSE])
       ELSE IF file
            THEN Suspend(p, rq, "upload", [loaded |-> FALSE, imageUrl |-> NoImage,
                                            uploaded |-> FALSE])
            ELSE Suspend(p, rq, "save", [loaded |-> FALSE, imageUrl |-> NoImage,
                                          uploaded |-> FALSE])
    /\ UNCHANGED <<db, cloud, appended, commented>>

\* an upload whose failure is only logged, the recipe going on without image
CreateUpload_Swallow(p, failed) ==
    /\ At(p, "create", "router", "upload")
    /\ cloud' = [cloud EXCEPT
                    !.uploads = @ + 1,
                    !.issued = IF failed THEN @
                               ELSE @ \cup {NumIds + cloud.uploads + 1},
                    !.images = IF failed THEN @
                               ELSE @ \cup {NumIds + cloud.uploads + 1}]
    /\ Await(p, "save", [loaded |-> FALSE, uploaded |-> TRUE,
                          imageUrl |-> IF failed THEN NoImage
                                       ELSE NumIds + cloud.uploads + 1])
    /\ UNCHANGED <<db, appended, commented>>

\* uploadToCloudinary resolves with the url of the stored image or rejects
CreateUpload(p, failed) ==
    /\ At(p, "create", "router", "upload")
    /\ cloud' = [cloud EXCEPT
                    !.uploads = @ + 1,
                    !.issued = IF failed THEN @
                               ELSE @ \cup {NumIds + cloud.uploads + 1},
                    !.images = IF failed THEN @
                               ELSE @ \cup {NumIds + cloud.uploads + 1}]
    /\ IF failed
       THEN Reply(p, [status |-> 500, msg |-> "Failed to upload image",
                      uploaded |-> TRUE])
       ELSE Await(p, "save", [loaded |-> FALSE, uploaded |-> TRUE,
                               imageUrl |-> NumIds + cloud.uploads + 1])
    /\ UNCHANGED <<db, appended, commented>>

\* newRecipe.save(): validation, then the insert under an id storage assigns
CreateSave(p) ==
    /\ At(p, "create", "router", "save")
    /\ LET r == newRecipe(req[p].body, local[p].imageUrl) IN
       IF SchemaValid(r)
       THEN /\ \E id \in DOMAIN db : db[id] = NoDoc
            /\ LET id == CHOOSE i \in DOMAIN db : db[i] = NoDoc IN
               /\ db' = [db EXCEPT ![id] = Doc(Values(r), nreq)]
               /\ Reply(p, [status |-> 201, msg |-> "Recipe saved successfully!",
                            uploaded |-> local[p].uploaded,
                            id |-> id, recipe |-> Doc(Values(r), nreq)])
       ELSE /\ Reply(p, [status |-> 400, msg |-> "Validation error",
                         uploaded |-> local[p].uploaded])
            /\ UNCHANGED db
    /\ UNCHANGED <<cloud, appended, commented>>

\* the bodies of the create requests: one that meets every rule of the
\* handler and of the schema, and that body with one field changed
Egg == [name |-> Str(<<"e", "g", "g">>), amount |-> Str(<<"2">>)]
NoName == [name |-> Str(<<" ">>), amount |-> Str(<<"2">>)]

GoodBody ==
    [title |-> Str(<<"P", "i", "e">>),
     category |-> Str(<<"C", "a", "k", "e", "s">>),
     cookingTime |-> Str(<<"3", "0">>),
     difficulty |-> Str(<<"e", "a", "s", "y">>),
     tags |-> JAbsent,
     ingredients |-> JArray(<<Egg>>),
     instructions |-> JArray(<<Str(<<"m", "i", "x", " ">>)>>)]

CreateBodies ==
    { GoodBody,
      [GoodBody EXCEPT !.title = Undefined],
      [GoodBody EXCEPT !.tags = JBad],
      [GoodBody EXCEPT !.ingredients = JArray(<<>>)],
      [GoodBody EXCEPT !.ingredients = JArray(<<NoName>>)],
      [GoodBody EXCEPT !.instructions = JObject],
      [GoodBody EXCEPT !.category = Str(<<"p", "i", "z", "z", "a">>)] }

\* ---------------------------------------------------------- specification
Next ==
    \E p \in Procs :
        \/ \E id \in RecipeIds, r \in RatingInputs : RouterRateBegin(p, id, r)
        \/ RouterRateFind(p)
        \/ RouterRateSave(p)
        \/ \E id \in RecipeIds, r \in RatingInputs : AppRateBegin(p, id, r)
        \/ AppRateFind(p)
        \/ AppRateSave(p)
        \/ \E id \in RecipeIds, t \in TextInputs : \E a \in AuthorInputs(t) :
              RouterCommentBegin(p, id, t, a)
        \/ RouterCommentFind(p)
        \/ RouterCommentSave(p)
        \/ \E id \in RecipeIds, t \in TextInputs : AppCommentBegin(p, id, t)
        \/ AppCommentFind(p)
        \/ AppCommentSave(p)
        \/ \E id \in RecipeIds : DeleteBegin(p, id)
        \/ DeleteFind(p)
        \/ \E failed \in BOOLEAN : DeleteDestroy(p, failed)
        \/ DeleteRemove(p)
        \/ \E id \in RecipeIds : GetBegin(p, id)
        \/ GetFind(p)
        \/ \E body \in CreateBodies, file \in BOOLEAN : CreateBegin(p, body, file)
        \/ \E failed \in BOOLEAN : CreateUpload(p, failed)
        \/ CreateSave(p)

Spec == Init /\ [][Next]_vars

\* Rating appends that run one after another: at most one of them is in
\* flight at any time, whatever the other requests do meanwhile.
RatesSequential == Cardinality({p \in Procs : req[p].op = "rate"}) <= 1

SeqNext == Next /\ RatesSequential'

SpecSeq == Init /\ [][SeqNext]_vars

\* The create handler alone, over every combination of the values of the
\* fields its checks read.
Titles == {Undefined, Str(<<"P", "i", "e">>)}
Categories ==
    {Str(<<"C", "a", "k", "e", "s">>), Str(<<" ", "c", "a", "k", "e", "s">>),
     Str(<<"p", "i", "z", "z", "a">>)}
TagFields == {JAbsent, JBad}
IngredientFields == {JBad, JArray(<<>>), JArray(<<Egg>>)}
InstructionFields == {JObject, JArray(<<>>), JArray(<<Str(<<"m", "i", "x", " ">>)>>)}

AllBodies ==
    [title : Titles, category : Categories, cookingTime : {Str(<<"3", "0">>)},
     difficulty : {Str(<<"e", "a", "s", "y">>)}, tags : TagFields,
     ingredients : IngredientFields, instructions : InstructionFields]

CreateNext ==
    \E p \in Procs :
        \/ \E body \in AllBodies, file \in BOOLEAN : CreateBegin(p, body, file)
        \/ \E failed \in BOOLEAN : CreateUpload(p, failed)
        \/ CreateSave(p)

SpecCreate == Init /\ [][CreateNext]_vars

\* The list handler over a collection of three recipes, each absent or one
\* of three schema-valid recipes, created in the order of their ids or in
\* the reverse order.
Eggy ==
    [title |-> <<"E", "g", "g", "y">>, category |-> <<"b", "r", "e", "a", "d">>,
     tags |-> << <<"n", "u", "t", "s">> >>,
     ingredients |-> <<[name |-> <<"o", "a", "t">>, amount |-> <<"1">>]>>,
     instructions |-> << <<"m", "i", "x">> >>, imageUrl |-> NoImage]

Tea ==
    [title |-> <<"T", "e", "a">>, category |-> <<"b", "e", "v", "e", "r", "a", "g", "e", "s">>,
     tags |-> << <<"h", "o", "t">>, <<"s", "w", "e", "e", "t">> >>,
     ingredients |-> <<[name |-> <<"l", "e", "a", "f">>, amount |-> <<"1">>],
                       [name |-> <<"H", "2", "O">>, amount |-> <<"1">>]>>,
     instructions |-> << <<"b", "o", "i", "l">> >>, imageUrl |-> NoImage]

Catalogue == {Sample(NoImage), Eggy, Tea}

InitList ==
    /\ \E content \in [ListIds -> Catalogue \cup {NoDoc}], reversed \in BOOLEAN :
          db = [i \in ListIds |->
                   IF content[i] = NoDoc THEN NoDoc
                   ELSE Doc(content[i], IF reversed THEN NumListed - i ELSE i)]
    /\ pc = [p \in Procs |-> "idle"]
    /\ req = [p \in Procs |-> NoReq]
    /\ local = [p \in Procs |-> NoLocal]
    /\ last = NoLast
    /\ nreq = 0
    /\ cloud = [uploads |-> 0, destroys |-> 0, issued |-> {}, images |-> {}]
    /\ appended = [i \in ListIds |-> <<>>]
    /\ commented = [i \in ListIds |-> 0]

CategoryFilters == {Undefined, Str(<<"B", "r", "e", "a", "d">>)}
TagFilters == {Undefined, Str(<<"S", "w", "e", "e", "t", ",", " ", "n", "u", "t", "s">>)}
SearchFilters == {Undefined, Str(<<>>), Str(<<"E", "G">>), Str(<<".">>), Str(<<"(">>)}

\* one list request at a time: the handler writes nothing
ListNext ==
    \/ \E c \in CategoryFilters, t \in TagFilters, s \in SearchFilters :
          ListBegin(1, c, t, s)
    \/ ListFind(1)

SpecList == InitList /\ [][ListNext]_vars

\* The handlers that take an id from the path, over two recipes and every
\* kind of id a client can send, with one input of each kind.
IdInputs == DocIds \cup {BadId}
IdRatings == {NumV(0), NumV(37), NumV(50)}
IdTexts == {Str(<<" ">>), Str(<<"a">>)}

InitIds == InitOver(DocIds)

IdsNext ==
    \E p \in Procs :
        \/ \E id \in IdInputs, r \in IdRatings : RouterRateBegin(p, id, r)
        \/ RouterRateFind(p)
        \/ RouterRateSave(p)
        \/ \E id \in IdInputs, r \in IdRatings : AppRateBegin(p, id, r)
        \/ AppRateFind(p)
        \/ AppRateSave(p)
        \/ \E id \in IdInputs, t \in IdTexts : RouterCommentBegin(p, id, t, Undefined)
        \/ RouterCommentFind(p)
        \/ RouterCommentSave(p)
        \/ \E id \in IdInputs, t \in IdTexts : AppCommentBegin(p, id, t)
        \/ AppCommentFind(p)
        \/ AppCommentSave(p)
        \/ \E id \in IdInputs : DeleteBegin(p, id)
        \/ DeleteFind(p)
        \/ \E failed \in BOOLEAN : DeleteDestroy(p, failed)
        \/ DeleteRemove(p)
        \/ \E id \in IdInputs : GetBegin(p, id)
        \/ GetFind(p)

SpecIds == InitIds /\ [][IdsNext]_vars

\* ------------------------------------------------------------ properties
Stored == {id \in DOMAIN db : db[id] # NoDoc}

Abs(x) == IF x < 0 THEN 0 - x ELSE x

\* avg is the mean of the values s (tenths) up to rounding to two decimals
WithinRounding(avg, s) ==
    /\ avg.d > 0
    /\ 200 * Abs(avg.n * 10 * Len(s) - SumSeq(s) * avg.d) <= avg.d * 10 * Len(s)

\* an integer between 1 and 5
IntegerRating(v) == v \in {10, 20, 30, 40, 50}

AllIntegerRatings(s) == \A i \in 1..Len(s) : IntegerRating(s[i])

\* C1: in every reachable state, ratingsCount of a stored recipe is the
\* number of entries of its ratings.
C1_RatingsCountIsLength ==
    \A id \in Stored : db[id].ratingsCount = Len(db[id].ratings)

\* C2: in every reachable state, averageRating of a stored recipe is the mean
\* of its stored rating values (up to rounding to two decimals), and 0 when
\* it has no ratings.
C2_AverageIsMean ==
    \A id \in Stored :
        IF db[id].ratings = <<>>
        THEN db[id].averageRating = Zero
        ELSE WithinRounding(db[id].averageRating, db[id].ratings)

\* C3: when rating appends run one after another and every rating answered
\* with success so far is an integer between 1 and 5, the stored ratings are
\* exactly those ratings in order, ratingsCount is their number,
\* averageRating their mean (to two decimals), and the last such answer
\* carries that count and that mean, the pair that is stored.
C3_SequentialAppends ==
    /\ \A id \in Stored :
          AllIntegerRatings(appended[id]) =>
             /\ db[id].ratings = appended[id]
             /\ db[id].ratingsCount = Len(appended[id])
             /\ appended[id] # <<>> =>
                   WithinRounding(db[id].averageRating, appended[id])
    /\ (/\ last.req.op = "rate"
        /\ last.resp.status = 200
        /\ AllIntegerRatings(appended[last.req.id])) =>
          /\ last.resp.ratingsCount = Len(appended[last.req.id])
          /\ WithinRounding(last.resp.averageRating, appended[last.req.id])
          /\ last.req.id \in Stored =>
                /\ last.resp.ratingsCount = db[last.req.id].ratingsCount
                /\ last.resp.averageRating = db[last.req.id].averageRating

\* C3 witness: three ratings 1, 1, 5 appended in turn, the last answered
\* with count 3 and mean 2.33.
C3_Witness ==
    \E id \in Stored :
        /\ appended[id] = <<10, 10, 50>>
        /\ db[id].ratings = <<10, 10, 50>>
        /\ last.req.op = "rate" /\ last.req.id = id /\ last.resp.status = 200
        /\ last.resp.averageRating = Frac(233, 100)

\* a successful store of an append made on a copy that another store has
\* overtaken since it was loaded
StaleStore(p) ==
    /\ pc[p] = "save" /\ req[p].op \in {"rate", "comment"}
    /\ pc'[p] = "idle"
    /\ last'.resp.status = 200
    /\ db[req[p].id].v # local[p].base.v

\* C4 as claimed: a successful store made on an overtaken copy overwrites the
\* stored collections with the handler's copy, dropping the other entry.
C4_SecondStoreOverwrites ==
    [][\A p \in Procs :
          StaleStore(p) =>
             /\ db'[req[p].id].ratings = local[p].cur.ratings
             /\ db'[req[p].id].comments = local[p].cur.comments]_vars

\* C4 amended: no append answered with success is lost: a stored recipe
\* holds as many ratings and as many comments as were answered with success.
C4_EverySuccessPersisted ==
    \A id \in Stored :
        /\ Len(db[id].ratings) = Len(appended[id])
        /\ Len(db[id].comments) = commented[id]

\* C4 witness: two rating appends that loaded the same state were both
\* answered with success; both ratings are stored, ratingsCount says 1.
C4_Witness ==
    \E id \in Stored :
        /\ Len(appended[id]) = 2
        /\ Len(db[id].ratings) = 2
        /\ db[id].ratingsCount = 1

\* C5: a rating request whose value is not an integer between 1 and 5 is
\* not answered with success, and every stored rating is such an integer.
InvalidRatingRequest(r) ==
    r.op = "rate" /\ ~(r.rating.kind = "num" /\ IntegerRating(r.rating.val))

C5_InvalidRatingRejected ==
    /\ InvalidRatingRequest(last.req) => last.resp.status # 200
    /\ \A id \in Stored : AllIntegerRatings(db[id].ratings)

\* a comment request whose text is missing, empty or only whitespace
BlankComment(r) ==
    r.op = "comment" /\ (r.text.kind = "undef" \/ Trim(r.text.val) = <<>>)

\* a step of the handler serving a blank comment: its answer before the
\* first await, or any later step of its slot
BlankCommentStep ==
    \/ nreq' # nreq /\ pc' = pc /\ BlankComment(last'.req)
    \/ \E p \in Procs : pc'[p] # pc[p] /\ (BlankComment(req[p]) \/ BlankComment(req'[p]))

\* C6: no step of a comment request with blank text changes storage, on
\* either comment endpoint.
C6_BlankCommentChangesNothing == [][BlankCommentStep => db' = db]_vars

\* C6 witness: a whitespace-only comment went through the router endpoint
\* as far as the store on an existing recipe and was refused there.
C6_Witness ==
    /\ BlankComment(last.req) /\ last.req.ep = "router"
    /\ last.req.id \in Stored
    /\ last.resp.status = 500

\* C7: a comment request with blank text is answered 400.
C7_BlankCommentIs400 == BlankComment(last.req) => last.resp.status = 400

\* the rules of a valid creation input: the required fields present, the
\* three JSON fields decodable, ingredients and instructions non-empty
\* arrays of non-blank entries, a category of the fixed set, cookingTime and
\* difficulty given
NonBlank(x) == x.kind = "str" /\ Trim(x.val) # <<>>

ValidInput(body) ==
    /\ NonBlank(body.title) /\ NonBlank(body.category)
    /\ NonBlank(body.cookingTime)
    /\ body.difficulty.kind = "str"
    /\ body.tags.kind = "undef" \/ body.tags.ok
    /\ body.ingredients.ok /\ body.ingredients.val.array
    /\ body.ingredients.val.items # <<>>
    /\ \A i \in 1..Len(body.ingredients.val.items) :
          /\ NonBlank(body.ingredients.val.items[i].name)
          /\ NonBlank(body.ingredients.val.items[i].amount)
    /\ body.instructions.ok /\ body.instructions.val.array
    /\ body.instructions.val.items # <<>>
    /\ \A i \in 1..Len(body.instructions.val.items) :
          NonBlank(body.instructions.val.items[i])
    /\ ToLowerCase(Trim(body.category.val)) \in validCategories

\* C8: a create request with an invalid input is answered without the
\* upload having been called.
C8_InvalidInputNeverUploads ==
    (last.req.op = "create" /\ ~ValidInput(last.req.body)) => ~last.resp.uploaded

\* C9: a create request with a valid input whose upload did not fail is
\* answered 201.
C9_ValidCreateSucceeds ==
    (/\ last.req.op = "create"
     /\ ValidInput(last.req.body)
     /\ last.resp.msg # "Failed to upload image") => last.resp.status = 201

\* C10: the step in which an upload fails ends the create request with 500
\* and leaves storage as it is; the imageUrl of every stored recipe is a url
\* that an upload returned.
UploadFails == cloud'.uploads # cloud.uploads /\ cloud'.issued = cloud.issued

C10_UploadFailureAborts ==
    /\ [][UploadFails =>
            /\ last'.req.op = "create" /\ last'.resp.status = 500
            /\ \E p \in Procs : pc[p] = "upload" /\ pc'[p] = "idle"
            /\ db' = db]_vars
    /\ [](\A id \in Stored : db[id].imageUrl \in cloud.issued \cup {NoImage})

\* C10 witness: an upload was called and failed, and the request was
\* answered 500.
C10_Witness ==
    /\ last.req.op = "create" /\ last.req.file
    /\ last.resp.status = 500 /\ last.resp.msg = "Failed to upload image"
    /\ last.resp.uploaded /\ cloud.uploads >= 1

\* a step of the handler in slot p
Steps(p) == pc'[p] # pc[p]

\* C11: a delete whose image deletion failed goes on to remove the recipe
\* record and answers with success; the record stays gone, and a get that
\* loads the id after that is answered NotFound.
C11_DeleteDespiteImageFailure ==
    [][/\ \A p \in Procs :
            /\ (At(p, "delete", "router", "destroy") /\ Steps(p)) =>
                  pc'[p] = "remove"
            /\ (At(p, "delete", "router", "remove") /\ Steps(p)
                   /\ local[p].destroyFailed) =>
                  /\ db'[req[p].id] = NoDoc
                  /\ last'.resp.status = 200
            /\ (At(p, "get", "router", "find") /\ Steps(p)
                   /\ req[p].id \notin Stored) =>
                  last'.resp = NotFound
       /\ \A id \in DOMAIN db : db[id] = NoDoc => db'[id] = NoDoc]_vars

\* C11 witness: the recipe with image 1 is gone from storage while object
\* storage still holds its image, the destroy having failed, and a get of
\* that id was answered NotFound.
C11_Witness ==
    /\ last.req.op = "get" /\ last.resp.status = 404
    /\ last.req.id = 1 /\ db[1] = NoDoc
    /\ cloud.destroys = 1 /\ 1 \in cloud.images

\* C12: a delete request whose id is not in storage when the handler looks
\* it up is answered 404 and ends there, with storage unchanged and no call
\* to object storage.
C12_DeleteMissingIsNotFound ==
    [][\A p \in Procs :
          (At(p, "delete", "router", "find") /\ Steps(p)
             /\ req[p].id \notin Stored) =>
             /\ last'.resp.status = 404
             /\ pc'[p] = "idle"
             /\ db' = db
             /\ cloud' = cloud]_vars

\* the rules of the create input, each stated for the raw body
FieldMissing(x) == x.kind = "undef" \/ (x.kind = "str" /\ x.val = <<>>)
TextMissing(f) == f.kind = "undef" \/ f.empty

MissingFields(body) ==
    \/ FieldMissing(body.title) \/ FieldMissing(body.category)
    \/ TextMissing(body.ingredients) \/ TextMissing(body.instructions)

Undecodable(f) == f.kind = "str" /\ ~f.empty /\ ~f.ok

MalformedJson(body) ==
    Undecodable(body.ingredients) \/ Undecodable(body.instructions)
        \/ Undecodable(body.tags)

EmptyArray(f) == f.ok /\ f.val.array /\ f.val.items = <<>>
NonEmptyArray(f) == f.ok /\ f.val.array /\ f.val.items # <<>>

InvalidShape(body) ==
    ~NonEmptyArray(body.ingredients) \/ ~NonEmptyArray(body.instructions)

\* the category is a member of the fixed set once trimmed and lower-cased
Normalizes(c) == c.kind = "str" /\ ToLowerCase(Trim(c.val)) \in validCategories

InvalidCategory(body) == ~Normalizes(body.category)

ShapeMessages ==
    {"Ingredients must be a non-empty array", "Instructions must be a non-empty array"}

\* a create request whose ingredients or instructions are an empty array,
\* with every required field named and the JSON decodable
EmptyArrayRequest(r) ==
    /\ r.op = "create"
    /\ ~MissingFields(r.body) /\ ~MalformedJson(r.body)
    /\ EmptyArray(r.body.ingredients) \/ EmptyArray(r.body.instructions)

\* the stored recipes have at least one ingredient and one instruction
NonEmptyRecipes ==
    \A id \in Stored : db[id].ingredients # <<>> /\ db[id].instructions # <<>>

\* C13: a create request that names every required field with decodable
\* JSON and whose ingredients or instructions decode to an empty array is
\* answered at once with 400 and the message of the shape check, with no
\* upload and storage unchanged; every stored recipe has at least one
\* ingredient and one instruction.
C13_EmptyArraysRejected ==
    /\ [][nreq' # nreq =>
             /\ \A p \in Procs : Steps(p) => ~EmptyArrayRequest(req'[p])
             /\ (pc' = pc /\ EmptyArrayRequest(last'.req)) =>
                   /\ last'.resp.status = 400
                   /\ last'.resp.msg \in ShapeMessages
                   /\ db' = db /\ cloud' = cloud]_vars
    /\ []NonEmptyRecipes

\* C13 witness: a create request with instructions '[]' and every other
\* field valid was answered 400 'Instructions must be a non-empty array'.
C13_Witness ==
    /\ last.req.op = "create"
    /\ NonEmptyArray(last.req.body.ingredients)
    /\ EmptyArray(last.req.body.instructions)
    /\ ~InvalidCategory(last.req.body)
    /\ last.resp.status = 400
    /\ last.resp.msg = "Instructions must be a non-empty array"
    /\ NonEmptyRecipes /\ Stored # {}

\* a create request that meets every rule that precedes the category check
ReachesCategoryRule(r) ==
    /\ r.op = "create"
    /\ ~MissingFields(r.body) /\ ~MalformedJson(r.body) /\ ~InvalidShape(r.body)

\* C16: a create request that reaches the category rule is answered
\* 'Invalid category' exactly when its category, trimmed and lower-cased, is
\* not in the fixed set; a recipe stored for it has the normalized category.
C16_CategoryNormalized ==
    /\ ReachesCategoryRule(last.req) =>
          /\ (last.resp.msg = "Invalid category") <=> InvalidCategory(last.req.body)
          /\ last.resp.status = 201 =>
                last.resp.recipe.category =
                    ToLowerCase(Trim(last.req.body.category.val))
    /\ \A id \in Stored : db[id].category \in validCategories

\* the rule of the create input that is violated first, in the order
\* MissingFields, MalformedJson, InvalidShape, InvalidCategory
EarliestViolated(body) ==
    IF MissingFields(body) THEN "Missing required fields"
    ELSE IF MalformedJson(body) THEN "Invalid JSON format"
    ELSE IF InvalidShape(body) THEN "shape"
    ELSE IF InvalidCategory(body) THEN "Invalid category"
    ELSE "none"

RulesViolated(body) ==
    {r \in {"missing", "json", "shape", "category"} :
        \/ r = "missing" /\ MissingFields(body)
        \/ r = "json" /\ MalformedJson(body)
        \/ r = "shape" /\ InvalidShape(body)
        \/ r = "category" /\ InvalidCategory(body)}

IsPrefix(s, t) == Len(s) <= Len(t) /\ SubSeq(t, 1, Len(s)) = s
IsSuffix(s, t) == Len(s) <= Len(t) /\ SubSeq(t, Len(t) - Len(s) + 1, Len(t)) = s

\* the entries of s are all in t, as they were and in their order, new
\* entries having been added at one end only
Kept(s, t) == IsPrefix(s, t) \/ IsSuffix(s, t)

\* C14: in every step that leaves a recipe in storage, the ratings it had
\* are still its first ratings, and the comments it had are still there,
\* unchanged and in their order.
C14_AppendOnly ==
    [][\A id \in DOMAIN db :
          (db[id] # NoDoc /\ db'[id] # NoDoc) =>
             /\ IsPrefix(db[id].ratings, db'[id].ratings)
             /\ Kept(db[id].comments, db'[id].comments)]_vars

\* C14 witness: a comment prepended by server.js on a copy that another
\* store had overtaken was refused, the recipe keeping the comments stored.
C14_Witness ==
    /\ last.req.op = "comment" /\ last.req.ep = "app"
    /\ last.resp.status = 500
    /\ last.req.id \in Stored
    /\ db[last.req.id].comments # <<>>

\* an append request whose input is invalid: a rating that is not an
\* integer between 1 and 5, a comment text that is blank
InvalidAppend(r) == InvalidRatingRequest(r) \/ BlankComment(r)

\* C15: a rating or comment request that looks up an id that is not in
\* storage leaves storage unchanged and is answered 404 when its input is
\* valid and 400 when it is not.
C15_AppendToMissing ==
    [][\A p \in Procs :
          (/\ pc[p] = "find" /\ req[p].op \in {"rate", "comment"}
           /\ Steps(p)
           /\ req[p].id \notin Stored) =>
             /\ db' = db
             /\ last'.resp.status = IF InvalidAppend(req[p]) THEN 400 ELSE 404]_vars

\* C19: a comment stored from a copy that is current, with no other request
\* in flight, is placed after the comments the recipe has, on either endpoint.
C19_CommentsInOrder ==
    [][\A p \in Procs :
          (/\ pc[p] = "save" /\ req[p].op = "comment"
           /\ Steps(p) /\ last'.resp.status = 200
           /\ \A q \in Procs \ {p} : pc[q] = "idle"
           /\ local[p].base = db[req[p].id]) =>
             db'[req[p].id].comments =
                 Append(db[req[p].id].comments,
                        CastComment(req[p].text, req[p].author))]_vars

\* the fields of a recipe other than those an append writes (the version
\* key is storage's own and moves with every store)
Others(d) ==
    [d EXCEPT !.ratings = <<>>, !.averageRating = Zero, !.ratingsCount = 0,
              !.comments = <<>>, !.v = 0]

\* C20: a rating store answered with success leaves the comments of its
\* recipe as stored and keeps the ratings stored before it; a comment store
\* answered with success leaves ratings, averageRating and ratingsCount as
\* stored and keeps the comments stored before it; both leave every other
\* field of the recipe and every other recipe unchanged.
C20_AppendFrame ==
    [][\A p \in Procs :
          (/\ pc[p] = "save" /\ req[p].op \in {"rate", "comment"}
           /\ Steps(p) /\ last'.resp.status = 200) =>
             LET id == req[p].id IN
             /\ \A j \in DOMAIN db \ {id} : db'[j] = db[j]
             /\ Others(db'[id]) = Others(db[id])
             /\ IsPrefix(db[id].ratings, db'[id].ratings)
             /\ Kept(db[id].comments, db'[id].comments)
             /\ req[p].op = "rate" => db'[id].comments = db[id].comments
             /\ req[p].op = "comment" =>
                   /\ db'[id].ratings = db[id].ratings
                   /\ db'[id].averageRating = db[id].averageRating
                   /\ db'[id].ratingsCount = db[id].ratingsCount]_vars

\* C20 witness: a rating was stored on recipe 1 while a comment request
\* that had loaded recipe 1 before that store waits to store, recipe 2
\* being in storage as it was.
C20_Witness ==
    /\ last.req.op = "rate" /\ last.req.id = 1 /\ last.resp.status = 200
    /\ \E q \in Procs :
          /\ pc[q] = "save" /\ req[q].op = "comment" /\ req[q].id = 1
          /\ local[q].base.ratings = <<>>
    /\ db[1] # NoDoc /\ db[1].ratings # <<>>
    /\ db[2] = NewDoc(NoImage)

\* text contains part, letter case aside
Contains(text, part) ==
    \E off \in 0..(Len(text) - Len(part)) :
        ToLowerCase(SubSeq(text, off + 1, off + Len(part))) = ToLowerCase(part)

Supplied(x) == x.kind = "str" /\ x.val # <<>>

\* the tags a list request asks for: the comma-separated items, trimmed and
\* lower-cased
RequestedTags(text) ==
    {ToLowerCase(Trim(SubSeq(text, ij[1], ij[2]))) :
        ij \in {x \in (1..(Len(text) + 1)) \X (0..Len(text)) :
                   /\ x[1] <= x[2] + 1
                   /\ \A k \in x[1]..x[2] : text[k] # ","
                   /\ x[1] = 1 \/ text[x[1] - 1] = ","
                   /\ x[2] = Len(text) \/ text[x[2] + 1] = ","}}

\* the recipe d satisfies every filter the request r supplies
Satisfies(r, d) ==
    /\ Supplied(r.category) => d.category = ToLowerCase(r.category.val)
    /\ Supplied(r.tags) =>
          \E i \in 1..Len(d.tags) : d.tags[i] \in RequestedTags(r.tags.val)
    /\ Supplied(r.search) =>
          \/ Contains(d.title, r.search.val)
          \/ \E i \in 1..Len(d.ingredients) :
                 Contains(d.ingredients[i].name, r.search.val)

\* C17: a list request is answered 200 with exactly the stored recipes that
\* satisfy every filter it supplies, each once, newest first.
C17_ListReturnsMatches ==
    last.req.op = "list" =>
        /\ last.resp.status = 200
        /\ {last.resp.recipes[i] : i \in 1..Len(last.resp.recipes)} =
               {id \in Stored : Satisfies(last.req, db[id])}
        /\ \A i, j \in 1..Len(last.resp.recipes) :
               i < j => /\ last.resp.recipes[i] # last.resp.recipes[j]
                        /\ db[last.resp.recipes[i]].createdAt
                               >= db[last.resp.recipes[j]].createdAt

\* a rating or comment request in slot p that loaded its recipe before the
\* recipe was deleted and has its store still to come
StoreAfterDelete(p) ==
    /\ pc[p] = "save" /\ req[p].op \in {"rate", "comment"}
    /\ db[req[p].id] = NoDoc

\* C21: the store of an append whose recipe was deleted after it was loaded
\* leaves the recipe absent and is not answered with success; no step puts
\* a deleted recipe back; a get that looks up a deleted id is answered 404.
C21_NoResurrection ==
    [][/\ \A p \in Procs :
            /\ (StoreAfterDelete(p) /\ Steps(p)) =>
                  /\ db' = db
                  /\ last'.resp.status = 500
            /\ (At(p, "get", "router", "find") /\ Steps(p)
                   /\ db[req[p].id] = NoDoc) =>
                  last'.resp.status = 404
       /\ \A id \in DOMAIN db :
             (db[id] = NoDoc /\ db'[id] # NoDoc) =>
                \E q \in Procs : req[q].op = "create" /\ Steps(q)]_vars

\* C21 witness: a rating of 5 that had loaded recipe 1 came to its store
\* after a delete of recipe 1 had succeeded; it was answered 500 and the
\* recipe is absent.
C21_Witness ==
    /\ last.req.op = "rate" /\ last.req.ep = "router"
    /\ last.req.rating = NumV(50) /\ last.req.id = 1
    /\ last.resp.status = 500
    /\ db[1] = NoDoc
    /\ appended[1] = <<>>

====
